---- MODULE Spec2Model ----
(***************************************************************************)
(* Smart Home Monitor (ESP32 + ThingSpeak): the gas baseline calibration   *)
(* and percentage mapping, the accelerometer shake detector, the           *)
(* millisecond timers of setup()/loop(), the sensor reads, the report and  *)
(* the display pages; and the Bluetooth car's motor outputs.               *)
(*                                                                         *)
(* Conventions                                                             *)
(*  - A 32-bit unsigned millisecond value (millis(), lastPageMs,           *)
(*    lastSendMs, shakeUntilMs) is written as the two's-complement integer *)
(*    with the same 32 bits: 0 .. 2^31-1 stand for themselves and          *)
(*    -2^31 .. -1 stand for 2^31 .. 2^32-1, so -200 is the counter value   *)
(*    200 ms before it wraps to 0.  AddU32/SubU32/ULt are the unsigned     *)
(*    operations on that encoding.                                         *)
(*  - A float (axE, ayE, azE, magE, dynE, noiseE) is a fixed-point integer *)
(*    in units of 1/FP raw counts; EMA weights are in hundredths.          *)
(***************************************************************************)
EXTENDS Integers, Sequences, FiniteSets

VARIABLES
  pc,            \* "probe": setup() before detection; "calib": inside
                 \* calibrateMQBaseline's loop; "loop": at the top of loop()
  clock,         \* what millis() returns now
  displayOk, hasAHT, hasMPU, wifiUp,
  calI, calSum,  \* calibrateMQBaseline's i and sum
  mqRaw, mqBase, mqDirty,
  airPct,        \* last value calcAirPct returned (report or AIR page), -1 before
  page, lastPageMs, lastSendMs,
  tempC, humP,   \* in units of 1/FP degree and 1/FP percent
  ax, ay, az, accInitialized,
  axE, ayE, azE, magE, dynE, noiseE,
  shakeUntilMs,
  \* model-only history, never read by an action's program part
  gasSrc,        \* the readings the gas ADC can return during calibration
  epoch,         \* how many times the millisecond counter has wrapped
  pageEpoch, sendEpoch, untilEpoch,  \* epoch of lastPageMs, lastSendMs, shakeUntilMs
  iter,          \* loop() iterations completed
  fedMags,       \* magnitudes of the samples updateMotion has processed
  win,           \* open: every update since the latest qualifying one ran while
                 \* isShakeActive(); pre, noise: noiseE before and after the
                 \* updateMotion call that opened the window
  qual,          \* the latest qualifying update: whether there was one, its
                 \* millis() value and that value's epoch
  last,          \* what the latest updateMotion call did
  it,            \* what the latest loop() iteration did
  request,       \* the query of the latest request sendToThingSpeak built:
                 \* <<field number, value>> pairs in the order of the url
  sends,         \* how many requests sendToThingSpeak has built
  shown,         \* what the latest render put on the display
  \* the Bluetooth car (a separate board)
  carPc,         \* "setup": before setup(); "run": in loop()
  pins,          \* level of each motor driver pin
  rx,            \* characters received over Bluetooth and not yet read
  handled        \* the latest handleCommand call: its character and the pin
                 \* levels before it

prog == <<pc, clock, displayOk, hasAHT, hasMPU, wifiUp, calI, calSum,
          mqRaw, mqBase, mqDirty, airPct, page, lastPageMs, lastSendMs,
          tempC, humP>>
motion == <<ax, ay, az, accInitialized, axE, ayE, azE, magE, dynE, noiseE,
            shakeUntilMs>>
hist == <<gasSrc, epoch, pageEpoch, sendEpoch, untilEpoch, iter, fedMags, win,
          qual, last, it, request, sends, shown>>
car == <<carPc, pins, rx, handled>>
vars == <<prog, motion, hist, car>>

-----------------------------------------------------------------------------
(* Program constants *)

THINGSPEAK_SEND_INTERVAL_MS == 5000
OLED_PAGE_INTERVAL_MS == 3000
PAGE_COUNT == 3
MQ_SPAN == 250
MQ_FLOOR_PCT == 1
CALIB_SAMPLES == 220
CALIB_DELAY_MS == 5
ADC_MAX == 1023
SPLASH_DELAY_MS == 1600
AHT_DELAY_MS == 80
LOOP_DELAY_MS == 20
WIFI_POLL_MS == 500
WIFI_TIMEOUT_MS == 15000
\* EMA weights, in hundredths
ACC_EMA_ALPHA == 10
MAG_ALPHA == 2
DYN_ALPHA == 25
NOISE_ALPHA == 1
MIN_QUAKE_COUNTS == 70
NOISE_MULT == 5
SHAKE_HOLD_MS == 300
\* largest value of the two's-complement encoding of an unsigned long
I32_MAX == 2147483647
\* readAHT10: bytes requested, and 2^20, the full scale of both raw values
AHT_FRAME_BYTES == 6
AHT_FULL_SCALE == 1048576
\* AIR page: percentages from which the label is MED, DIRTY, DANGER
AIR_MED_PCT == 35
AIR_DIRTY_PCT == 60
AIR_DANGER_PCT == 80
\* fixed-point units per raw count
FP == 100

(* Bluetooth car: pins and levels *)
M1_EN == 32
M1_IN1 == 25
M1_IN2 == 26
M2_EN == 33
M2_IN1 == 27
M2_IN2 == 14
M3_EN == 22
M3_IN1 == 19
M3_IN2 == 18
M4_EN == 23
M4_IN1 == 5
M4_IN2 == 17
HIGH == 1
LOW == 0

(* Bounds of the exploration *)
MaxIter == 4
\* characters the Bluetooth receive buffer holds at most
MaxQueue == 2
\* a long quiet run ends this many ms before the counter wraps
WrapLeadMs == 200

-----------------------------------------------------------------------------
(* unsigned long arithmetic on the two's-complement encoding *)

AddU32(a, d) ==
  IF a > I32_MAX - d THEN (a - I32_MAX - 1) + (d - I32_MAX - 1) ELSE a + d

SubU32(a, b) ==
  IF a >= 0 /\ b < 0 /\ a > I32_MAX + b
    THEN (a - I32_MAX - 1) - (b + I32_MAX + 1)
  ELSE IF a < 0 /\ b > 0 /\ a < (b - I32_MAX) - 1
    THEN (a + I32_MAX + 1) - (b - I32_MAX - 1)
  ELSE a - b

ULt(a, b) == IF (a < 0) = (b < 0) THEN a < b ELSE b < 0

\* the counter passes 2^32 on the way from a to AddU32(a, d)
Wrapped(a, d) == ULt(AddU32(a, d), a)

\* epoch of the time AddU32(a, d) when a lies in epoch e
EpochAfter(e, a, d) == IF Wrapped(a, d) THEN e + 1 ELSE e

-----------------------------------------------------------------------------
(* Gas sensor: baseline and percentage *)

constrain(amt, low, high) ==
  IF amt < low THEN low ELSE IF amt > high THEN high ELSE amt

\* calcAirPct whose degenerate-baseline branch returns 0
calcAirPct_DegenerateZero(raw) ==
  IF mqDirty <= mqBase THEN 0
  ELSE LET r   == constrain(raw, mqBase, mqDirty)
           pct == ((r - mqBase) * 100) \div (mqDirty - mqBase)
           ip  == constrain(pct, 0, 100)
       IN  IF ip = 0 THEN MQ_FLOOR_PCT ELSE ip

\* calcAirPct whose floor test reads ip < 0
calcAirPct_FloorTestOff(raw) ==
  IF mqDirty <= mqBase THEN MQ_FLOOR_PCT
  ELSE LET r   == constrain(raw, mqBase, mqDirty)
           pct == ((r - mqBase) * 100) \div (mqDirty - mqBase)
           ip  == constrain(pct, 0, 100)
       IN  IF ip < 0 THEN MQ_FLOOR_PCT ELSE ip

calcAirPct(raw) ==
  IF mqDirty <= mqBase THEN MQ_FLOOR_PCT
  ELSE LET r   == constrain(raw, mqBase, mqDirty)
           pct == ((r - mqBase) * 100) \div (mqDirty - mqBase)
           ip  == constrain(pct, 0, 100)
       IN  IF ip = 0 THEN MQ_FLOOR_PCT ELSE ip

calibBase(sum) == sum \div CALIB_SAMPLES

\* calibDirty without the clamp at the ADC maximum
calibDirty_NoClamp(base) == base + MQ_SPAN

calibDirty(base) == constrain(base + MQ_SPAN, base + 1, ADC_MAX)

-----------------------------------------------------------------------------
(* Shake detector *)

\* float arithmetic: (1 - alpha) * prev + alpha * sample, truncated to 1/FP
ema(prev, sample, alpha) == ((100 - alpha) * prev + alpha * sample) \div 100

absf(v) == IF v < 0 THEN -v ELSE v

\* largest a in lo..hi with a * a <= n
RECURSIVE SqrtSearch(_, _, _)
SqrtSearch(n, lo, hi) ==
  IF lo = hi THEN lo
  ELSE LET mid == (lo + hi + 1) \div 2
       IN  IF mid * mid <= n THEN SqrtSearch(n, mid, hi)
           ELSE SqrtSearch(n, lo, mid - 1)

\* largest g in lo..hi with 2 * a * FP * g + g * g <= rem
RECURSIVE FracSearch(_, _, _, _)
FracSearch(a, rem, lo, hi) ==
  IF lo = hi THEN lo
  ELSE LET mid == (lo + hi + 1) \div 2
       IN  IF 2 * a * FP * mid + mid * mid <= rem THEN FracSearch(a, rem, mid, hi)
           ELSE FracSearch(a, rem, lo, mid - 1)

\* sqrtf(x*x + y*y + z*z) in units of 1/FP, rounded down: a whole counts plus
\* the largest g/FP with (a + g/FP)^2 <= n
Norm(x, y, z) ==
  LET n == x * x + y * y + z * z
  IN  LET a == SqrtSearch(n, 0, 46340)
      IN  a * FP + FracSearch(a, (n - a * a) * FP * FP, 0, FP - 1)

\* readMPU6050Raw() when the bus delivers s, a whole sample or NoRead (fewer
\* than 6 bytes): the values ax, ay, az hold afterwards
readMPU6050Raw(s) == IF Len(s) = 0 THEN <<ax, ay, az>> ELSE s

\* isShakeActive() called when millis() returns t
isShakeActive(t) == ULt(t, shakeUntilMs)

\* noiseStep without the freeze: the noise floor learns on every update
noiseStep_NoFreeze(active, noise, dyn) == ema(noise, dyn, NOISE_ALPHA)

\* noiseStep with the test inverted: the noise floor learns only while active
noiseStep_LearnWhileActive(active, noise, dyn) ==
  IF active THEN ema(noise, dyn, NOISE_ALPHA) ELSE noise

\* line 172: the noise floor learns only while the detector is not active
noiseStep(active, noise, dyn) ==
  IF ~active THEN ema(noise, dyn, NOISE_ALPHA) ELSE noise

\* shakeThreshold adding the minimum to the scaled noise floor
shakeThreshold_Sum(noise) == noise * NOISE_MULT + MIN_QUAKE_COUNTS * FP

\* lines 173-174
shakeThreshold(noise) ==
  LET th == noise * NOISE_MULT
  IN  IF th < MIN_QUAKE_COUNTS * FP THEN MIN_QUAKE_COUNTS * FP ELSE th

\* line 175: the window's end when a qualifying update runs at millis() = t
shakeHold(t) == AddU32(t, SHAKE_HOLD_MS)

\* motionNext whose first call leaves the magnitude baseline at 0
motionNext_SeedNoMagnitude(s, t) ==
  LET mag == Norm(s[1], s[2], s[3])
  IN  IF ~accInitialized
      THEN [axE |-> s[1] * FP, ayE |-> s[2] * FP, azE |-> s[3] * FP,
            magE |-> 0, dynE |-> 0, noiseE |-> 0, until |-> shakeUntilMs,
            kind |-> "seed"]
      ELSE LET mE  == ema(magE, mag, MAG_ALPHA)
               dyn == absf(mag - mE)
               dE  == ema(dynE, dyn, DYN_ALPHA)
               nE  == noiseStep(isShakeActive(t), noiseE, dE)
               hit == dE > shakeThreshold(nE)
           IN  [axE |-> ema(axE, s[1] * FP, ACC_EMA_ALPHA),
                ayE |-> ema(ayE, s[2] * FP, ACC_EMA_ALPHA),
                azE |-> ema(azE, s[3] * FP, ACC_EMA_ALPHA),
                magE |-> mE, dynE |-> dE, noiseE |-> nE,
                until |-> IF hit THEN shakeHold(t) ELSE shakeUntilMs,
                kind |-> IF hit THEN "trigger" ELSE "calm"]

\* updateMotion() after readMPU6050Raw left s in ax, ay, az, with millis() = t:
\* the detector's next state
motionNext(s, t) ==
  LET mag == Norm(s[1], s[2], s[3])
  IN  IF ~accInitialized
      THEN [axE |-> s[1] * FP, ayE |-> s[2] * FP, azE |-> s[3] * FP,
            magE |-> mag, dynE |-> 0, noiseE |-> 0, until |-> shakeUntilMs,
            kind |-> "seed"]
      ELSE LET mE  == ema(magE, mag, MAG_ALPHA)
               dyn == absf(mag - mE)
               dE  == ema(dynE, dyn, DYN_ALPHA)
               nE  == noiseStep(isShakeActive(t), noiseE, dE)
               hit == dE > shakeThreshold(nE)
           IN  [axE |-> ema(axE, s[1] * FP, ACC_EMA_ALPHA),
                ayE |-> ema(ayE, s[2] * FP, ACC_EMA_ALPHA),
                azE |-> ema(azE, s[3] * FP, ACC_EMA_ALPHA),
                magE |-> mE, dynE |-> dE, noiseE |-> nE,
                until |-> IF hit THEN shakeHold(t) ELSE shakeUntilMs,
                kind |-> IF hit THEN "trigger" ELSE "calm"]

-----------------------------------------------------------------------------
(* Temperature and humidity *)

clampf(v, lo, hi) == IF v < lo THEN lo ELSE IF v > hi THEN hi ELSE v

\* (raw * mult) / 1048576.0f in units of 1/FP, rounded down
ahtScale(raw, mult) ==
  LET n == raw * mult
  IN  (n \div AHT_FULL_SCALE) * FP + ((n % AHT_FULL_SCALE) * FP) \div AHT_FULL_SCALE

\* readAHT10 that does not test the busy bit
readAHT10_IgnoreBusy(f) ==
  IF f.n # AHT_FRAME_BYTES THEN [tempC |-> tempC, humP |-> humP, ok |-> FALSE]
  ELSE [tempC |-> clampf(ahtScale(f.t, 200) - 50 * FP, (-40) * FP, 85 * FP),
        humP  |-> clampf(ahtScale(f.h, 100), 0, 100 * FP),
        ok    |-> TRUE]

\* readAHT10() when the bus delivers f: n bytes, the busy bit of data[0], and
\* the 20-bit raw humidity h and temperature t.  The values tempC and humP hold
\* afterwards, and whether they were assigned.
readAHT10(f) ==
  IF f.n # AHT_FRAME_BYTES THEN [tempC |-> tempC, humP |-> humP, ok |-> FALSE]
  ELSE IF f.busy THEN [tempC |-> tempC, humP |-> humP, ok |-> FALSE]
  ELSE [tempC |-> clampf(ahtScale(f.t, 200) - 50 * FP, (-40) * FP, 85 * FP),
        humP  |-> clampf(ahtScale(f.h, 100), 0, 100 * FP),
        ok    |-> TRUE]

-----------------------------------------------------------------------------
(* Number formatting *)

\* String(v, 1) and print(v, 1): v to one decimal, as a count of tenths
oneDecimal(v) ==
  IF v >= 0 THEN (20 * v + FP) \div (2 * FP) ELSE -((20 * (-v) + FP) \div (2 * FP))

\* (int)roundf(v)
roundf(v) ==
  IF v >= 0 THEN (2 * v + FP) \div (2 * FP) ELSE -((2 * (-v) + FP) \div (2 * FP))

\* (int)v
truncf(v) == IF v >= 0 THEN v \div FP ELSE -((-v) \div FP)

-----------------------------------------------------------------------------
(* Report *)

NoRequest == <<>>

\* sendToThingSpeak without the test of WiFi.status()
sendToThingSpeak_NoLinkTest(status, tC, hP, raw, active) ==
  (IF hasAHT THEN << <<1, oneDecimal(tC)>>, <<2, oneDecimal(hP)>> >>
   ELSE <<>>)
  \o << <<3, calcAirPct(raw)>>, <<4, IF active THEN 1 ELSE 0>>, <<5, raw>> >>

\* sendToThingSpeak with the shake flag inverted
sendToThingSpeak_FlagInverted(status, tC, hP, raw, active) ==
  IF ~status THEN NoRequest
  ELSE (IF hasAHT THEN << <<1, oneDecimal(tC)>>, <<2, oneDecimal(hP)>> >>
        ELSE <<>>)
       \o << <<3, calcAirPct(raw)>>, <<4, IF active THEN 0 ELSE 1>>, <<5, raw>> >>

\* sendToThingSpeak without the hasAHT test: field1 and field2 always sent
sendToThingSpeak_AlwaysClimate(status, tC, hP, raw, active) ==
  IF ~status THEN NoRequest
  ELSE << <<1, oneDecimal(tC)>>, <<2, oneDecimal(hP)>>,
          <<3, calcAirPct(raw)>>, <<4, IF active THEN 1 ELSE 0>>, <<5, raw>> >>

\* sendToThingSpeak() with WiFi.status() = status, the globals tempC = tC,
\* humP = hP, mqRaw = raw, and isShakeActive() = active: the query of the
\* request it builds, NoRequest when it returns without building one
sendToThingSpeak(status, tC, hP, raw, active) ==
  IF ~status THEN NoRequest
  ELSE (IF hasAHT THEN << <<1, oneDecimal(tC)>>, <<2, oneDecimal(hP)>> >>
        ELSE <<>>)
       \o << <<3, calcAirPct(raw)>>, <<4, IF active THEN 1 ELSE 0>>, <<5, raw>> >>

\* the field numbers of a query, and the value it carries for field f
Fields(q) == {q[i][1] : i \in DOMAIN q}
FieldValue(q, f) == q[CHOOSE i \in DOMAIN q : q[i][1] = f][2]

-----------------------------------------------------------------------------
(* Display *)

NoRender == [title |-> "", sensor |-> FALSE, nums |-> <<>>, text |-> ""]

airLabel(pct) ==
  IF pct < AIR_MED_PCT THEN "CLEAN"
  ELSE IF pct < AIR_DIRTY_PCT THEN "MED"
  ELSE IF pct < AIR_DANGER_PCT THEN "DIRTY" ELSE "DANGER"

\* lines 286-357: what page pg shows for tempC = tC, humP = hP, mqRaw = raw,
\* the detector values seeded, x, y, z and isShakeActive() = active
render(pg, tC, hP, raw, seeded, x, y, z, active) ==
  IF pg = 0
  THEN IF hasAHT
       THEN [title |-> "TEMP", sensor |-> TRUE,
             nums |-> <<roundf(tC), roundf((tC * 9) \div 5 + 32 * FP),
                        oneDecimal(hP)>>,
             text |-> ""]
       ELSE [title |-> "TEMP", sensor |-> FALSE, nums |-> <<>>,
             text |-> "NO SENSOR"]
  ELSE IF pg = 1
  THEN [title |-> "AIR", sensor |-> TRUE, nums |-> <<calcAirPct(raw), raw>>,
        text |-> airLabel(calcAirPct(raw))]
  ELSE IF hasMPU /\ seeded
       THEN [title |-> "MOTION", sensor |-> TRUE,
             nums |-> <<truncf(x), truncf(y), truncf(z)>>,
             text |-> IF active THEN "YES!" ELSE "NO"]
       ELSE [title |-> "MOTION", sensor |-> FALSE, nums |-> <<>>,
             text |-> "NO SENSOR"]

-----------------------------------------------------------------------------
(* Model-only bookkeeping *)

NoRead == <<>>            \* readMPU6050Raw got fewer than 6 bytes

NoUpdate == [kind |-> "none", steady |-> FALSE, axisStep |-> FALSE, dMag |-> 0,
             t |-> 0, act |-> FALSE, noisePre |-> 0, untilPre |-> 0,
             mag |-> 0, pre |-> <<0, 0, 0, 0, 0>>]

\* AHT10 frames: nothing on the bus
NoFrame == [n |-> 0, busy |-> FALSE, h |-> 0, t |-> 0]

NoIteration ==
  [now |-> 0, steps |-> <<>>, frame |-> NoFrame, sample |-> NoRead,
   aht |-> "none", mpu |-> "none", sendDue |-> FALSE,
   reconnect |-> FALSE, outcome |-> "none", tSend |-> 0,
   pre |-> [page |-> 0, lastPageMs |-> 0, lastSendMs |-> 0, tempC |-> 0,
            humP |-> 0, acc |-> <<0, 0, 0>>, sends |-> 0, mqRaw |-> 0]]

\* the detector rests on the sample in ax, ay, az: seeded, no dynamics, no
\* learned noise, magnitude baseline equal to the sample's norm
Steady ==
  /\ accInitialized
  /\ dynE = 0 /\ noiseE = 0
  /\ magE = Norm(ax, ay, az)

\* s is the sample in ax, ay, az with one axis raised by 2000
AxisStep(s) ==
  \/ s = <<ax + 2000, ay, az>>
  \/ s = <<ax, ay + 2000, az>>
  \/ s = <<ax, ay, az + 2000>>

\* instant (e1, t1) is earlier than instant (e2, t2) on the unbounded clock
Earlier(e1, t1, e2, t2) == e1 < e2 \/ (e1 = e2 /\ ULt(t1, t2))

\* at least k ms lie between instant (e1, t1) and the later instant (e2, t2)
ElapsedAtLeast(e1, t1, e2, t2, k) ==
  IF e2 = e1 THEN ~ULt(t2, t1) /\ ~ULt(SubU32(t2, t1), k)
  ELSE IF e2 = e1 + 1 THEN ULt(t2, t1) => ~ULt(SubU32(t2, t1), k)
  ELSE e2 > e1

-----------------------------------------------------------------------------
(* Power-up: the globals as declared, millis() = 0 *)

PowerUp(srcs) ==
  /\ pc = "probe"
  /\ clock = 0
  /\ displayOk = FALSE /\ hasAHT = FALSE /\ hasMPU = FALSE /\ wifiUp = FALSE
  /\ calI = 0 /\ calSum = 0
  /\ mqRaw = 0 /\ mqBase = 0 /\ mqDirty = 0
  /\ airPct = -1
  /\ page = 0 /\ lastPageMs = 0 /\ lastSendMs = 0
  /\ ax = 0 /\ ay = 0 /\ az = 0 /\ accInitialized = FALSE
  /\ axE = 0 /\ ayE = 0 /\ azE = 0 /\ magE = 0 /\ dynE = 0 /\ noiseE = 0
  /\ shakeUntilMs = 0
  /\ gasSrc \in srcs
  /\ epoch = 0 /\ pageEpoch = 0 /\ sendEpoch = 0 /\ untilEpoch = 0
  /\ iter = 0
  /\ fedMags = {}
  /\ win = [open |-> FALSE, pre |-> 0, noise |-> 0]
  /\ qual = [some |-> FALSE, t |-> 0, e |-> 0]
  /\ last = NoUpdate
  /\ tempC = 25 * FP /\ humP = 50 * FP
  /\ it = NoIteration
  /\ request = NoRequest /\ sends = 0
  /\ shown = NoRender

-----------------------------------------------------------------------------
(* setup() *)

\* setup() up to the sensor detection: the splash screen, i2cPresent twice
Probe(disp, aht, mpu) ==
  /\ pc = "probe"
  /\ pc' = "calib"
  /\ displayOk' = disp /\ hasAHT' = aht /\ hasMPU' = mpu
  /\ clock' = AddU32(clock, IF disp THEN SPLASH_DELAY_MS ELSE 0)
  /\ UNCHANGED <<wifiUp, calI, calSum, mqRaw, mqBase, mqDirty, airPct, page,
                 lastPageMs, lastSendMs, tempC, humP, motion, hist, car>>

\* one pass of calibrateMQBaseline's loop
CalibrateStep ==
  /\ pc = "calib" /\ calI < CALIB_SAMPLES
  /\ \E r \in gasSrc : calSum' = calSum + r
  /\ calI' = calI + 1
  /\ clock' = AddU32(clock, CALIB_DELAY_MS)
  /\ UNCHANGED <<pc, displayOk, hasAHT, hasMPU, wifiUp, mqRaw, mqBase, mqDirty,
                 airPct, page, lastPageMs, lastSendMs, tempC, humP, motion,
                 hist, car>>

\* time connectWiFi takes: one poll when the link comes up, else its timeout
connectTime(up) == IF up THEN WIFI_POLL_MS ELSE WIFI_TIMEOUT_MS + WIFI_POLL_MS

\* the end of calibrateMQBaseline, connectWiFi, and the timers' first values
FinishSetup(link) ==
  /\ pc = "calib" /\ calI = CALIB_SAMPLES
  /\ pc' = "loop"
  /\ mqBase' = calibBase(calSum)
  /\ mqDirty' = calibDirty(calibBase(calSum))
  /\ wifiUp' = link
  /\ LET t == AddU32(clock, connectTime(link))
     IN  /\ clock' = t
         /\ lastSendMs' = SubU32(t, THINGSPEAK_SEND_INTERVAL_MS)
         /\ sendEpoch' = IF ULt(t, THINGSPEAK_SEND_INTERVAL_MS) THEN epoch - 1 ELSE epoch
         /\ lastPageMs' = t
         /\ pageEpoch' = epoch
  /\ UNCHANGED <<displayOk, hasAHT, hasMPU, calI, calSum, mqRaw, airPct, page,
                 tempC, humP, motion, gasSrc, epoch, untilEpoch, iter, fedMags,
                 win, qual, last, it, request, sends, shown, car>>

-----------------------------------------------------------------------------
(* loop() *)

\* timerDue with > in place of >=
timerDue_Strict(now, since, interval) == ULt(interval, SubU32(now, since))

\* now - since >= interval, in unsigned long arithmetic (lines 273 and 280)
timerDue(now, since, interval) == ~ULt(SubU32(now, since), interval)

\* loop() whose report step runs before the sensors are read
loopSteps_ReportFirst(aht, sendDue, disp) ==
  <<"page">> \o (IF sendDue THEN <<"report">> ELSE <<>>)
    \o (IF aht THEN <<"aht">> ELSE <<>>) \o <<"gas", "motion">>
    \o (IF disp THEN <<"render">> ELSE <<>>)

\* lines 272-357: the steps of one iteration, in the order the code runs
\* them; the page-timer check, the gas read and the updateMotion call are
\* unconditional
loopSteps(aht, sendDue, disp) ==
  <<"page">> \o (IF aht THEN <<"aht">> ELSE <<>>) \o <<"gas", "motion">>
    \o (IF sendDue THEN <<"report">> ELSE <<>>)
    \o (IF disp THEN <<"render">> ELSE <<>>)

\* One loop() iteration.  dt: the time the iteration takes beyond the AHT10 and
\* WiFi waits (at least the final delay(20)), spent after the render; f: the
\* frame readAHT10 gets; s: what readMPU6050Raw delivers (a triple, or NoRead);
\* r: the gas ADC reading; link: WiFi.status() at line 281; reconn:
\* WiFi.status() after a connectWiFi attempt; http: what http.GET() returns.
Loop(dt, f, s, r, link, reconn, http) ==
  /\ pc = "loop" /\ iter < MaxIter
  /\ dt >= LOOP_DELAY_MS
  /\ LET now     == clock
         pageDue == timerDue(now, lastPageMs, OLED_PAGE_INTERVAL_MS)
         page1   == IF pageDue THEN (page + 1) % PAGE_COUNT ELSE page
         ahtMs   == IF hasAHT THEN AHT_DELAY_MS ELSE 0
         tM      == AddU32(now, ahtMs)                \* millis() in updateMotion
         eM      == EpochAfter(epoch, now, ahtMs)
         smp     == readMPU6050Raw(s)
         sendDue == timerDue(now, lastSendMs, THINGSPEAK_SEND_INTERVAL_MS)
         status  == IF link THEN TRUE ELSE reconn     \* after line 281
         wifiMs  == IF sendDue /\ ~link THEN connectTime(reconn) ELSE 0
         tS      == AddU32(tM, wifiMs)        \* millis() in the report and render
         spent   == ahtMs + wifiMs + dt
     IN  /\ lastPageMs' = IF pageDue THEN now ELSE lastPageMs
         /\ pageEpoch' = IF pageDue THEN epoch ELSE pageEpoch
         /\ page' = page1
         /\ \E rd \in {IF hasAHT THEN readAHT10(f)
                       ELSE [tempC |-> tempC, humP |-> humP, ok |-> FALSE]} :
              /\ tempC' = rd.tempC /\ humP' = rd.humP
         /\ mqRaw' = r
         /\ IF hasMPU
            THEN \E m \in {motionNext(smp, tM)}, mag \in {Norm(smp[1], smp[2], smp[3])} :
                 /\ ax' = smp[1] /\ ay' = smp[2] /\ az' = smp[3]
                 /\ accInitialized' = TRUE
                 /\ axE' = m.axE /\ ayE' = m.ayE /\ azE' = m.azE
                 /\ magE' = m.magE /\ dynE' = m.dynE /\ noiseE' = m.noiseE
                 /\ shakeUntilMs' = m.until
                 /\ untilEpoch' = IF m.kind = "trigger"
                                  THEN EpochAfter(eM, tM, SHAKE_HOLD_MS)
                                  ELSE untilEpoch
                 /\ fedMags' = fedMags \cup {mag}
                 /\ last' = [kind |-> m.kind, steady |-> Steady,
                             axisStep |-> AxisStep(smp),
                             dMag |-> absf(mag - magE),
                             t |-> tM, act |-> isShakeActive(tM),
                             noisePre |-> noiseE, untilPre |-> shakeUntilMs,
                             mag |-> mag,
                             pre |-> <<axE, ayE, azE, magE, dynE>>]
                 /\ qual' = IF m.kind = "trigger"
                            THEN [some |-> TRUE, t |-> tM, e |-> eM] ELSE qual
                 /\ LET opens == m.kind = "trigger"
                                  /\ ~(win.open /\ isShakeActive(tM))
                    IN  win' = [open  |-> IF m.kind = "trigger" THEN TRUE
                                          ELSE win.open /\ m.kind = "calm"
                                               /\ isShakeActive(tM),
                                pre   |-> IF opens THEN noiseE ELSE win.pre,
                                noise |-> IF opens THEN m.noiseE ELSE win.noise]
            ELSE UNCHANGED <<motion, untilEpoch, fedMags, last, win, qual>>
         /\ lastSendMs' = IF sendDue THEN now ELSE lastSendMs
         /\ sendEpoch' = IF sendDue THEN epoch ELSE sendEpoch
         /\ wifiUp' = IF sendDue THEN status ELSE wifiUp
         /\ \E q \in {IF sendDue
                      THEN sendToThingSpeak(status, tempC', humP', r,
                                            ULt(tS, shakeUntilMs'))
                      ELSE NoRequest} :
              /\ request' = IF q # NoRequest THEN q ELSE request
              /\ sends' = IF q # NoRequest THEN sends + 1 ELSE sends
              /\ airPct' = IF q # NoRequest \/ (displayOk /\ page1 = 1)
                           THEN calcAirPct(r) ELSE airPct
              /\ it' = [now |-> now,
                        steps |-> loopSteps(hasAHT, sendDue, displayOk),
                        frame |-> f, sample |-> s,
                        aht |-> IF ~hasAHT THEN "none"
                                ELSE IF readAHT10(f).ok THEN "ok" ELSE "fail",
                        mpu |-> IF ~hasMPU THEN "none"
                                ELSE IF s = NoRead THEN "fail" ELSE "ok",
                        sendDue |-> sendDue,
                        reconnect |-> sendDue /\ ~link,
                        outcome |-> IF ~sendDue THEN "none"
                                    ELSE IF q = NoRequest THEN "skipped"
                                    ELSE IF http > 0 THEN "ok" ELSE "error",
                        tSend |-> tS,
                        pre |-> [page |-> page, lastPageMs |-> lastPageMs,
                                 lastSendMs |-> lastSendMs, tempC |-> tempC,
                                 humP |-> humP, acc |-> <<ax, ay, az>>,
                                 sends |-> sends, mqRaw |-> mqRaw]]
         /\ shown' = IF displayOk
                     THEN render(page1, tempC', humP', r, accInitialized',
                                 axE', ayE', azE', ULt(tS, shakeUntilMs'))
                     ELSE shown
         /\ clock' = AddU32(now, spent)
         /\ epoch' = EpochAfter(epoch, now, spent)
  /\ iter' = iter + 1
  /\ UNCHANGED <<pc, displayOk, hasAHT, hasMPU, calI, calSum, mqBase, mqDirty,
                 gasSrc, car>>

\* updateMotion leaves the detector as it is when fed the sample in ax, ay, az
\* again, whether or not a window is running
Settled ==
  /\ accInitialized
  /\ ema(axE, ax * FP, ACC_EMA_ALPHA) = axE
  /\ ema(ayE, ay * FP, ACC_EMA_ALPHA) = ayE
  /\ ema(azE, az * FP, ACC_EMA_ALPHA) = azE
  /\ ema(magE, Norm(ax, ay, az), MAG_ALPHA) = magE
  /\ ema(dynE, absf(Norm(ax, ay, az) - magE), DYN_ALPHA) = dynE
  /\ ema(noiseE, dynE, NOISE_ALPHA) = noiseE
  /\ dynE <= shakeThreshold(noiseE)

\* A long run of loop() iterations during which the accelerometer keeps
\* delivering the sample in ax, ay, az, the gas reading stays mqRaw and the link
\* stays up, from a settled detector: only the clock and the timers move.  The
\* run ends WrapLeadMs before the counter wraps, or one hold time earlier
\* still, its last iteration (which rotated the page back to the current one
\* and sent a report) having started one loop delay earlier.
WrapLeads == {WrapLeadMs, WrapLeadMs + SHAKE_HOLD_MS}

QuietRun ==
  /\ pc = "loop" /\ iter < MaxIter
  /\ hasMPU /\ ~hasAHT /\ wifiUp /\ Settled
  /\ epoch = 0 /\ clock >= 0
  /\ \E lead \in WrapLeads :
     LET end   == 0 - lead
         begin == SubU32(end, LOOP_DELAY_MS)
     IN  /\ clock' = end
         /\ lastPageMs' = begin /\ lastSendMs' = begin
         /\ pageEpoch' = 0 /\ sendEpoch' = 0
         /\ last' = [kind |-> "calm", steady |-> Steady, axisStep |-> FALSE,
                     dMag |-> absf(Norm(ax, ay, az) - magE), t |-> begin,
                     act |-> FALSE, noisePre |-> noiseE,
                     untilPre |-> shakeUntilMs, mag |-> Norm(ax, ay, az),
                     pre |-> <<axE, ayE, azE, magE, dynE>>]
         /\ it' = [now |-> begin, steps |-> loopSteps(FALSE, TRUE, displayOk),
                   frame |-> NoFrame, sample |-> <<ax, ay, az>>,
                   aht |-> "none", mpu |-> "ok", sendDue |-> TRUE,
                   reconnect |-> FALSE, outcome |-> "ok", tSend |-> begin,
                   pre |-> [page |-> (page + PAGE_COUNT - 1) % PAGE_COUNT,
                            lastPageMs |-> SubU32(begin, OLED_PAGE_INTERVAL_MS),
                            lastSendMs |-> SubU32(begin, THINGSPEAK_SEND_INTERVAL_MS),
                            tempC |-> tempC, humP |-> humP,
                            acc |-> <<ax, ay, az>>, sends |-> sends,
                            mqRaw |-> mqRaw]]
         /\ request' = sendToThingSpeak(TRUE, tempC, humP, mqRaw,
                                        ULt(begin, shakeUntilMs))
         /\ sends' = sends + 1
         /\ shown' = IF displayOk
                     THEN render(page, tempC, humP, mqRaw, accInitialized,
                                 axE, ayE, azE, ULt(begin, shakeUntilMs))
                     ELSE shown
  /\ airPct' = calcAirPct(mqRaw)
  /\ win' = [win EXCEPT !.open = FALSE]
  /\ fedMags' = fedMags \cup {Norm(ax, ay, az)}
  /\ iter' = iter + 1
  /\ UNCHANGED <<pc, displayOk, hasAHT, hasMPU, wifiUp, calI, calSum, mqRaw,
                 mqBase, mqDirty, page, tempC, humP, motion, gasSrc, epoch,
                 untilEpoch, qual, car>>

-----------------------------------------------------------------------------
(* Bluetooth car *)

M1 == [in1 |-> M1_IN1, in2 |-> M1_IN2, en |-> M1_EN]
M2 == [in1 |-> M2_IN1, in2 |-> M2_IN2, en |-> M2_EN]
M3 == [in1 |-> M3_IN1, in2 |-> M3_IN2, en |-> M3_EN]
M4 == [in1 |-> M4_IN1, in2 |-> M4_IN2, en |-> M4_EN]
Motors == {M1, M2, M3, M4}
PinSet == UNION {{m.in1, m.in2, m.en} : m \in Motors}

\* setMotor whose running branches do not drive the opposite input LOW
setMotor_NoClear(p, m, dir) ==
  IF dir > 0 THEN [p EXCEPT ![m.in1] = HIGH, ![m.en] = HIGH]
  ELSE IF dir < 0 THEN [p EXCEPT ![m.in2] = HIGH, ![m.en] = HIGH]
  ELSE [p EXCEPT ![m.in1] = LOW, ![m.in2] = LOW, ![m.en] = LOW]

\* setMotor(m.in1, m.in2, m.en, dir) on pin levels p: the levels afterwards
setMotor(p, m, dir) ==
  IF dir > 0 THEN [p EXCEPT ![m.in1] = HIGH, ![m.in2] = LOW, ![m.en] = HIGH]
  ELSE IF dir < 0 THEN [p EXCEPT ![m.in1] = LOW, ![m.in2] = HIGH, ![m.en] = HIGH]
  ELSE [p EXCEPT ![m.in1] = LOW, ![m.in2] = LOW, ![m.en] = LOW]

\* stopCar that leaves the enable pins as they are
stopCar_KeepsEnable(p) ==
  [q \in PinSet |-> IF q \in {m.en : m \in Motors} THEN p[q] ELSE LOW]

stopCar(p) == setMotor(setMotor(setMotor(setMotor(p, M1, 0), M2, 0), M3, 0), M4, 0)

forward(p) == setMotor(setMotor(setMotor(setMotor(p, M1, 1), M3, 1), M2, 1), M4, 1)

backward(p) ==
  setMotor(setMotor(setMotor(setMotor(p, M1, -1), M3, -1), M2, -1), M4, -1)

turnLeft(p) ==
  setMotor(setMotor(setMotor(setMotor(p, M1, -1), M3, -1), M2, 1), M4, 1)

turnRight(p) ==
  setMotor(setMotor(setMotor(setMotor(p, M1, 1), M3, 1), M2, -1), M4, -1)

\* handleCommand(c) on pin levels p
handleCommand(p, c) ==
  CASE c = "F" -> turnLeft(p)
    [] c = "B" -> turnRight(p)
    [] c = "L" -> forward(p)
    [] c = "R" -> backward(p)
    [] c = "S" -> stopCar(p)
    [] OTHER   -> p

NoCommand == [c |-> "", before |-> [q \in PinSet |-> LOW]]

\* the car's board powers up with each pin at one of the given levels
CarPowerUp(levels) ==
  /\ carPc = "setup"
  /\ pins \in [PinSet -> levels]
  /\ rx = <<>>
  /\ handled = NoCommand

\* setup(): the pins become outputs, then stopCar()
CarSetup ==
  /\ carPc = "setup"
  /\ carPc' = "run"
  /\ pins' = stopCar(pins)
  /\ UNCHANGED <<rx, handled, prog, motion, hist>>

\* the phone sends character c
Receive(c) ==
  /\ carPc = "run" /\ Len(rx) < MaxQueue
  /\ rx' = Append(rx, c)
  /\ UNCHANGED <<carPc, pins, handled, prog, motion, hist>>

\* loop() with a character available; with none it changes nothing
CarLoop ==
  /\ carPc = "run" /\ Len(rx) > 0
  /\ pins' = handleCommand(pins, Head(rx))
  /\ handled' = [c |-> Head(rx), before |-> pins]
  /\ rx' = Tail(rx)
  /\ UNCHANGED <<carPc, prog, motion, hist>>

-----------------------------------------------------------------------------
(* Specifications *)

Levels == 0 .. ADC_MAX

\* Gas path: no accelerometer; calibration sees either one constant level (any
\* level) or an arbitrary mix of the two rail values.
GasSources == {{v} : v \in Levels} \cup {{0, ADC_MAX}}
GasInputs == {0, 1, 511, 1022, ADC_MAX}
PageStepMs == OLED_PAGE_INTERVAL_MS

InitGas == PowerUp(GasSources) /\ CarPowerUp({LOW})

NextGas ==
  \/ Probe(TRUE, FALSE, FALSE)
  \/ CalibrateStep
  \/ FinishSetup(TRUE)
  \/ \E r \in GasInputs : Loop(PageStepMs, NoFrame, NoRead, r, TRUE, TRUE, 200)

SpecGas == InitGas /\ [][NextGas]_vars

\* Shake detector: accelerometer present, constant gas level.
GasRest == ADC_MAX \div 4
Rest == <<0, 0, 16384>>
Samples == {Rest, <<0, 16384, 0>>, <<2000, 0, 16384>>, <<0, 0, 18384>>,
            <<0, 0, 16684>>}
\* iteration times: the bare delay(20), and one that with two bare delays adds
\* up to exactly the hold time
MotionSteps == {LOOP_DELAY_MS, SHAKE_HOLD_MS - 2 * LOOP_DELAY_MS}

InitMotion == PowerUp({{GasRest}}) /\ CarPowerUp({LOW})

NextMotion ==
  \/ Probe(FALSE, FALSE, TRUE)
  \/ CalibrateStep
  \/ FinishSetup(TRUE)
  \/ \E dt \in MotionSteps, s \in Samples \cup {NoRead} :
       Loop(dt, NoFrame, s, GasRest, TRUE, TRUE, 200)
  \/ QuietRun

SpecMotion == InitMotion /\ [][NextMotion]_vars

\* Whole station: every combination of display and sensors present, the link
\* up or down, sensor reads failing or not, short and long iterations.
BusyFrame == [n |-> AHT_FRAME_BYTES, busy |-> TRUE, h |-> 0, t |-> 0]
Frames == {[n |-> AHT_FRAME_BYTES, busy |-> FALSE, h |-> 629146, t |-> 380000],
           BusyFrame,
           [n |-> 0, busy |-> FALSE, h |-> 0, t |-> 0]}
GasHigh == ADC_MAX \div 2
\* iteration inputs: <<dt, f, s, r, link, reconn, http>>
StationInputs ==
  {<<LOOP_DELAY_MS, f, Rest, GasRest, TRUE, TRUE, 200>> : f \in Frames}
  \cup {<<LOOP_DELAY_MS, BusyFrame, NoRead, GasRest, TRUE, TRUE, 200>>}
  \cup {<<OLED_PAGE_INTERVAL_MS, [n |-> AHT_FRAME_BYTES, busy |-> FALSE,
                                  h |-> 1048575, t |-> 1048575],
          s, r, TRUE, TRUE, -1>> : s \in {NoRead, <<0, 0, 18384>>},
                                   r \in {GasRest, GasHigh}}
  \cup {<<OLED_PAGE_INTERVAL_MS, NoFrame, <<0, 0, 18384>>, GasHigh, FALSE,
          reconn, 200>> : reconn \in BOOLEAN}

InitStation == PowerUp({{GasRest}}) /\ CarPowerUp({LOW})

NextStation ==
  \/ \E disp \in BOOLEAN, aht \in BOOLEAN, mpu \in BOOLEAN : Probe(disp, aht, mpu)
  \/ CalibrateStep
  \/ \E link \in BOOLEAN : FinishSetup(link)
  \/ \E i \in StationInputs : Loop(i[1], i[2], i[3], i[4], i[5], i[6], i[7])

SpecStation == InitStation /\ [][NextStation]_vars

\* Bluetooth car: any pin levels at power-up, any characters received.
Chars == {"F", "B", "L", "R", "S", "f", "x"}

InitCar == PowerUp({{0}}) /\ CarPowerUp({LOW, HIGH})

NextCar ==
  \/ CarSetup
  \/ \E c \in Chars : Receive(c)
  \/ CarLoop

SpecCar == InitCar /\ [][NextCar]_vars

-----------------------------------------------------------------------------
(* Gas path properties, under SpecGas *)

\* setup() has run: the baseline is in place
Calibrated == pc = "loop"

\* the state setup() leaves.  No action of loop() assigns mqBase or mqDirty, so
\* a statement about the baseline alone is evaluated here, once per baseline.
JustCalibrated == pc = "loop" /\ iter = 0

\* C1: for every baseline calibration can produce and every raw reading in
\* [0, 1023], calcAirPct returns an integer in [1, 100], never 0; so does every
\* value it has returned to a report or to the AIR page.
C1_AirPctInRange ==
  /\ JustCalibrated => \A r \in Levels : calcAirPct(r) \in 1 .. 100
  /\ Calibrated /\ airPct # -1 => airPct \in 1 .. 100

\* a reading one count above the floor, whose 0 percent was reported as 1
C1_Witness ==
  Calibrated /\ mqDirty > mqBase /\ mqRaw = mqBase + 1 /\ iter = 1 /\ airPct = 1

\* C2: for every baseline calibration can produce, every raw reading at or
\* above the ceiling mqDirty maps to exactly 100.
C2_AtCeilingIs100 ==
  JustCalibrated => \A r \in Levels : r >= mqDirty => calcAirPct(r) = 100

\* C3: for every baseline calibration can produce, every raw reading at or
\* below the floor mqBase maps to exactly MQ_FLOOR_PCT.
C3_AtFloorIsMinimum ==
  /\ JustCalibrated =>
       \A r \in Levels : r <= mqBase => calcAirPct(r) = MQ_FLOOR_PCT
  /\ Calibrated /\ iter = 1 /\ mqRaw <= mqBase => airPct = MQ_FLOOR_PCT

\* the first report carried a reading below the floor as MQ_FLOOR_PCT
C3_Witness ==
  Calibrated /\ mqDirty > mqBase /\ mqRaw < mqBase /\ iter = 1
    /\ airPct = MQ_FLOOR_PCT

\* C4: after calibration the ceiling is above the floor and both lie in
\* [0, 1023], whatever the 220 readings were.
C4_CeilingAboveFloor ==
  Calibrated => mqDirty > mqBase /\ mqBase \in Levels /\ mqDirty \in Levels

\* C5: 220 constant readings v give mqBase = v and
\* mqDirty = min(v + MQ_SPAN, 1023).
C5_ConstantCalibration ==
  Calibrated =>
    \A v \in Levels :
      gasSrc = {v} =>
        /\ mqBase = v
        /\ mqDirty = IF v + MQ_SPAN < ADC_MAX THEN v + MQ_SPAN ELSE ADC_MAX

\* a constant level whose ceiling was clamped, and one whose ceiling was not
C5_Witness ==
  Calibrated /\ gasSrc = {900} /\ mqBase = 900 /\ mqDirty = ADC_MAX

-----------------------------------------------------------------------------
(* Shake detector and timer properties, under SpecMotion *)

\* C6: while every sample updateMotion has processed had the same magnitude,
\* the detector has never become ACTIVE: shakeUntilMs was never set and
\* isShakeActive() is false.
C6_ConstantMagnitudeStaysQuiet ==
  Cardinality(fedMags) <= 1 =>
    /\ shakeUntilMs = 0
    /\ ~qual.some
    /\ ~isShakeActive(clock)

\* two different triples of one magnitude were fed, the axes still blending
C6_Witness ==
  /\ Cardinality(fedMags) = 1 /\ last.kind = "calm"
  /\ <<ax, ay, az>> = <<0, 16384, 0>> /\ azE > 0 /\ ayE > 0

\* C7: from a steady baseline, a single sample that differs from it by +2000
\* on any one axis makes the detector ACTIVE within that update:
\* shakeUntilMs = millis() + SHAKE_HOLD_MS.
C7_AnyAxisStepTriggers ==
  last.steady /\ last.axisStep =>
    last.kind = "trigger" /\ shakeUntilMs = AddU32(last.t, SHAKE_HOLD_MS)

\* C7 as amended: from a steady baseline, a single sample whose magnitude
\* differs from the baseline magnitude by at least 300 counts makes the
\* detector ACTIVE within that update.
C7_MagnitudeStepTriggers ==
  last.steady /\ last.dMag >= 300 * FP =>
    last.kind = "trigger" /\ shakeUntilMs = AddU32(last.t, SHAKE_HOLD_MS)

\* a +2000 step on the axis that carries the baseline triggered
C7_Witness ==
  /\ last.steady /\ last.axisStep /\ last.dMag >= 300 * FP
  /\ last.kind = "trigger" /\ shakeUntilMs = AddU32(last.t, SHAKE_HOLD_MS)

\* the window's end on the unbounded clock, for a qualifying update at qual.t
HoldEndEpoch == EpochAfter(qual.e, qual.t, SHAKE_HOLD_MS)
HoldEnd == AddU32(qual.t, SHAKE_HOLD_MS)

\* C8: with the last qualifying update at time t, isShakeActive() is true at
\* every time in [t, t + SHAKE_HOLD_MS) and false at every later time (and
\* false as long as no update has qualified).
C8_ActiveExactlyDuringHold ==
  pc = "loop" =>
    (isShakeActive(clock) <=>
       qual.some /\ Earlier(epoch, clock, HoldEndEpoch, HoldEnd))

\* the timer was armed in this epoch or the one before
OneWrap(e) == epoch - e \in {0, 1}

C9_PageTimer ==
  OneWrap(pageEpoch) =>
    (timerDue(clock, lastPageMs, OLED_PAGE_INTERVAL_MS) <=>
       ElapsedAtLeast(pageEpoch, lastPageMs, epoch, clock, OLED_PAGE_INTERVAL_MS))

C9_SendTimer ==
  OneWrap(sendEpoch) =>
    (timerDue(clock, lastSendMs, THINGSPEAK_SEND_INTERVAL_MS) <=>
       ElapsedAtLeast(sendEpoch, lastSendMs, epoch, clock,
                      THINGSPEAK_SEND_INTERVAL_MS))

C9_ShakeTimer ==
  qual.some /\ OneWrap(qual.e) =>
    (isShakeActive(clock) <=> Earlier(epoch, clock, untilEpoch, shakeUntilMs))

\* C9: the page timer, the report timer and the shake window each give the
\* answer an unbounded clock would give, also when the millisecond counter
\* wraps once between arming and checking.
C9_TimersSurviveOneWrap ==
  pc = "loop" => C9_PageTimer /\ C9_SendTimer /\ C9_ShakeTimer

\* the two difference-based timers alone
PageAndSendTimersSurviveOneWrap ==
  pc = "loop" => C9_PageTimer /\ C9_SendTimer

\* C10: throughout an active window noiseE equals the value it had before the
\* updateMotion call that made the detector ACTIVE.
C10_NoiseAtPreEventValue ==
  win.open => noiseE = win.pre

\* C10 as amended: throughout an active window noiseE equals the value it had
\* at the end of the updateMotion call that made the detector ACTIVE.
C10_NoiseFrozenSinceTrigger ==
  win.open => noiseE = win.noise

\* an update ran inside a window with dynamics that would have moved the noise
\* floor, and the floor is where the triggering call left it
C10_Witness ==
  /\ win.open /\ last.kind = "calm" /\ last.act
  /\ noiseE = win.noise /\ win.noise # win.pre
  /\ ema(noiseE, dynE, NOISE_ALPHA) # noiseE

\* the latest updateMotion call was not the seeding one, and its updated
\* smoothedDynamics exceeded max(noiseFloor * 5, 70)
Qualified == last.kind \in {"calm", "trigger"} /\ dynE > shakeThreshold(noiseE)

\* in a non-seeding call shakeUntilMs becomes millis() + SHAKE_HOLD_MS if and
\* only if the updated smoothedDynamics exceeds the threshold, and else stays
HoldSetIffQualified ==
  last.kind \in {"calm", "trigger"} =>
    IF dynE > shakeThreshold(noiseE)
    THEN shakeUntilMs = AddU32(last.t, SHAKE_HOLD_MS) /\ last.kind = "trigger"
    ELSE shakeUntilMs = last.untilPre /\ last.kind = "calm"

\* C17: in every non-seeding updateMotion call shakeUntilMs becomes
\* millis() + SHAKE_HOLD_MS if and only if the updated smoothedDynamics
\* exceeds max(noiseFloor * 5, 70), and else stays; a qualifying update while
\* ACTIVE moves shakeUntilMs to a value no earlier than before, so that the
\* detector stays ACTIVE (the window is extended, never shortened).
C17_HoldSetAndExtended ==
  /\ HoldSetIffQualified
  /\ Qualified /\ last.act =>
       ~ULt(shakeUntilMs, last.untilPre) /\ ULt(last.t, shakeUntilMs)

\* a qualifying update inside a running window moved its end forward
C17_Extended ==
  /\ Qualified /\ last.act
  /\ ULt(last.untilPre, shakeUntilMs) /\ ULt(last.t, shakeUntilMs)

\* the latest updateMotion call blended the sample into the smoothed axes,
\* magnitude and dynamics
SmoothedUpdated ==
  /\ axE = ema(last.pre[1], ax * FP, ACC_EMA_ALPHA)
  /\ ayE = ema(last.pre[2], ay * FP, ACC_EMA_ALPHA)
  /\ azE = ema(last.pre[3], az * FP, ACC_EMA_ALPHA)
  /\ magE = ema(last.pre[4], last.mag, MAG_ALPHA)
  /\ dynE = ema(last.pre[5], absf(last.mag - magE), DYN_ALPHA)

\* C18: an updateMotion call changes noiseE if and only if the detector is
\* not ACTIVE when the call reaches the noise-floor step; a call made while
\* ACTIVE leaves noiseE unchanged and still updates the smoothed axes,
\* magnitude and dynamics.
C18_NoiseChangesIffNotActive ==
  last.kind # "none" =>
    /\ noiseE # last.noisePre <=> ~last.act
    /\ last.act => SmoothedUpdated

\* C18 as amended: an updateMotion call changes noiseE only if the detector
\* is not ACTIVE at the noise-floor step: a non-seeding call made while not
\* ACTIVE sets noiseE to the blend of noiseE and the updated dynE (which can
\* be the value it had), the seeding call leaves it 0, and a call made while
\* ACTIVE leaves noiseE unchanged and still updates the smoothed axes,
\* magnitude and dynamics.
C18_NoiseChangesOnlyIfNotActive ==
  /\ last.kind = "seed" => noiseE = 0 /\ last.noisePre = 0 /\ ~last.act
  /\ last.kind \in {"calm", "trigger"} =>
       /\ SmoothedUpdated
       /\ IF last.act THEN noiseE = last.noisePre
          ELSE noiseE = ema(last.noisePre, dynE, NOISE_ALPHA)

\* an update inside a window moved the axes, the magnitude and the dynamics
\* and left a noise floor that the blend would have moved
C18_Witness ==
  /\ last.kind \in {"calm", "trigger"} /\ last.act
  /\ noiseE = last.noisePre /\ ema(last.noisePre, dynE, NOISE_ALPHA) # noiseE
  /\ magE # last.pre[4] /\ dynE # last.pre[5] /\ azE # last.pre[3]

-----------------------------------------------------------------------------
(* Page, report, read and ordering properties, under SpecStation *)

\* at least one loop() iteration has run
Iterated == pc = "loop" /\ iter > 0

\* C11: the page index is always in {0, 1, 2}; an iteration leaves page and
\* lastPageMs as they were when now - lastPageMs < 3000, and otherwise moves
\* page to (page + 1) mod 3 and sets lastPageMs to the iteration's now: no
\* page is skipped or repeated, whatever the iteration takes.
C11_PageRotation ==
  /\ page \in 0 .. PAGE_COUNT - 1
  /\ Iterated =>
       IF ULt(SubU32(it.now, it.pre.lastPageMs), OLED_PAGE_INTERVAL_MS)
       THEN page = it.pre.page /\ lastPageMs = it.pre.lastPageMs
       ELSE page = (it.pre.page + 1) % PAGE_COUNT /\ lastPageMs = it.now

\* the index went 0, 1, 2 and is back at 0
C11_Witness ==
  Iterated /\ iter = 4 /\ page = 0 /\ it.pre.page = 2 /\ lastPageMs = it.now

\* C12: every request sendToThingSpeak builds carries field3 (the air
\* percentage), field4 (the shake flag, 0 or 1) and field5 (the raw gas
\* reading); it carries field1 and field2 if and only if hasAHT.
C12_ReportFields ==
  sends > 0 =>
    /\ {3, 4, 5} \subseteq Fields(request)
    /\ FieldValue(request, 3) \in 1 .. 100
    /\ FieldValue(request, 4) \in {0, 1}
    /\ FieldValue(request, 5) \in Levels
    /\ 1 \in Fields(request) <=> hasAHT
    /\ 2 \in Fields(request) <=> hasAHT
    /\ Fields(request) \subseteq 1 .. 5

\* a request with all five fields, the temperature the one just read
C12_Witness ==
  /\ sends > 0 /\ hasAHT /\ it.aht = "ok" /\ it.outcome = "ok"
  /\ Fields(request) = 1 .. 5
  /\ FieldValue(request, 1) = oneDecimal(tempC) /\ tempC # 25 * FP

\* C13: when the report timer has elapsed in an iteration, a reconnect is
\* attempted first if the link is down; no request is built if the link is
\* still down; lastSendMs becomes that iteration's now whether the request
\* succeeded, failed or was skipped; and at most one request is built.  When
\* the timer has not elapsed nothing is attempted and lastSendMs stays.
C13_ReportStep ==
  Iterated =>
    IF ~ULt(SubU32(it.now, it.pre.lastSendMs), THINGSPEAK_SEND_INTERVAL_MS)
    THEN /\ lastSendMs = it.now
         /\ it.outcome \in {"ok", "error", "skipped"}
         /\ it.outcome = "skipped" <=> ~wifiUp
         /\ ~wifiUp => it.reconnect /\ sends = it.pre.sends
         /\ wifiUp => sends = it.pre.sends + 1
         /\ it.reconnect =>
              SubU32(it.tSend, it.now) >= WIFI_POLL_MS
    ELSE /\ lastSendMs = it.pre.lastSendMs
         /\ it.outcome = "none" /\ ~it.reconnect
         /\ sends = it.pre.sends

\* after one report went out, the next due report found the link down, the
\* reconnect failed, nothing was sent and the timer was restarted all the same
C13_Witness ==
  /\ Iterated /\ it.outcome = "skipped" /\ it.reconnect /\ ~wifiUp
  /\ it.pre.sends = 1 /\ sends = 1 /\ lastSendMs = it.now

\* the steps of loop() in the order the claim gives them
StepOrder == <<"page", "aht", "gas", "motion", "report", "render">>
StepPos(x) == CHOOSE i \in DOMAIN StepOrder : StepOrder[i] = x

\* the latest iteration built a request
Reported == Iterated /\ sends = it.pre.sends + 1

\* C14: in every iteration the steps run in the order page timer, AHT10 read
\* (only if hasAHT), gas read, one detector update, report (only if its timer
\* elapsed), render, each at most once; so the report and the render of an
\* iteration show the gas reading, the temperature and the detector state
\* that iteration produced.
C14_StepOrder ==
  Iterated =>
    /\ \A i, j \in DOMAIN it.steps :
         i < j => StepPos(it.steps[i]) < StepPos(it.steps[j])
    /\ \A i \in DOMAIN it.steps : it.steps[i] = "aht" => hasAHT
    /\ \A i \in DOMAIN it.steps :
         it.steps[i] = "report" =>
           ~ULt(SubU32(it.now, it.pre.lastSendMs), THINGSPEAK_SEND_INTERVAL_MS)
    /\ Cardinality({i \in DOMAIN it.steps : it.steps[i] = "motion"}) = 1
    /\ Reported =>
         /\ FieldValue(request, 5) = mqRaw
         /\ FieldValue(request, 3) = calcAirPct(mqRaw)
         /\ FieldValue(request, 4) = IF ULt(it.tSend, shakeUntilMs) THEN 1 ELSE 0
         /\ hasAHT => FieldValue(request, 1) = oneDecimal(tempC)
                      /\ FieldValue(request, 2) = oneDecimal(humP)
    /\ displayOk =>
         shown = render(page, tempC, humP, mqRaw, accInitialized, axE, ayE, azE,
                        ULt(it.tSend, shakeUntilMs))

\* one iteration read a new gas level and a sample that made the detector
\* ACTIVE, reported both and showed the MOTION page with the shake on it
C14_Witness ==
  /\ Reported /\ displayOk /\ hasMPU
  /\ it.steps = <<"page", "gas", "motion", "report", "render">>
  /\ mqRaw # it.pre.mqRaw /\ FieldValue(request, 5) = mqRaw
  /\ last.kind = "trigger" /\ FieldValue(request, 4) = 1
  /\ shown.title = "MOTION" /\ shown.text = "YES!"

\* C15: a failed sensor read leaves the values as the previous iteration left
\* them: tempC and humP when the AHT10 returns a wrong byte count or has its
\* busy bit set, ax, ay and az when the MPU6050 returns fewer than 6 bytes.
\* Nothing else records the failure.
C15_FailedReadKeepsValues ==
  Iterated =>
    /\ hasAHT /\ (it.frame.n # AHT_FRAME_BYTES \/ it.frame.busy) =>
         tempC = it.pre.tempC /\ humP = it.pre.humP
    /\ hasMPU /\ it.sample = NoRead => <<ax, ay, az>> = it.pre.acc
    /\ ~hasAHT => tempC = it.pre.tempC /\ humP = it.pre.humP
    /\ ~hasMPU => <<ax, ay, az>> = it.pre.acc

\* after reads that succeeded, an iteration in which the AHT10 was busy and
\* the MPU6050 sent nothing kept the values of the earlier reads
C15_Witness ==
  /\ Iterated /\ hasAHT /\ hasMPU
  /\ it.frame.n = AHT_FRAME_BYTES /\ it.frame.busy /\ it.sample = NoRead
  /\ tempC = it.pre.tempC /\ tempC # 25 * FP /\ humP # 50 * FP
  /\ <<ax, ay, az>> = Rest

\* the detector is as declared: never seeded, all smoothed values 0, no window
DetectorUntouched ==
  /\ ~accInitialized
  /\ axE = 0 /\ ayE = 0 /\ azE = 0 /\ magE = 0 /\ dynE = 0 /\ noiseE = 0
  /\ shakeUntilMs = 0

\* C19: when the MPU6050 was not detected, the detector state keeps its
\* initial value in every state, isShakeActive() is false and every request
\* carries shake flag 0; hasAHT and hasMPU do not change after setup.
C19_NoMpuNoShake ==
  /\ [](pc # "probe" /\ ~hasMPU =>
         /\ DetectorUntouched
         /\ ~isShakeActive(clock) /\ ~isShakeActive(it.tSend)
         /\ sends > 0 => FieldValue(request, 4) = 0)
  /\ [][pc # "probe" => hasAHT' = hasAHT /\ hasMPU' = hasMPU]_vars

\* without an MPU6050, reports went out and the MOTION page was shown
C19_Witness ==
  /\ pc = "loop" /\ ~hasMPU /\ DetectorUntouched
  /\ sends = 2 /\ FieldValue(request, 4) = 0
  /\ shown.title = "MOTION" /\ shown.text = "NO SENSOR"

-----------------------------------------------------------------------------
(* Bluetooth car properties, under SpecCar *)

\* every pin of motor m is LOW
MotorStopped(p, m) == p[m.in1] = LOW /\ p[m.in2] = LOW /\ p[m.en] = LOW

\* C16: after handleCommand('S') IN1, IN2 and EN of all four motors are LOW,
\* whatever they were before; handleCommand with a character other than
\* 'F', 'B', 'L', 'R', 'S' leaves every pin as it was.
C16_StopAndUnknown ==
  carPc = "run" /\ handled # NoCommand =>
    /\ handled.c = "S" => \A m \in Motors : MotorStopped(pins, m)
    /\ handled.c \notin {"F", "B", "L", "R", "S"} => pins = handled.before

\* 'S' arrived while all four motors were running
C16_Witness ==
  /\ handled.c = "S"
  /\ \A m \in Motors : handled.before[m.en] = HIGH
  /\ \A m \in Motors : MotorStopped(pins, m)

\* C20: after setup() and after every handleCommand call, for each motor IN1
\* and IN2 are not both HIGH, and EN is HIGH exactly when one of them is.
C20_MotorPinsConsistent ==
  carPc = "run" =>
    \A m \in Motors :
      /\ ~(pins[m.in1] = HIGH /\ pins[m.in2] = HIGH)
      /\ pins[m.en] = HIGH <=> (pins[m.in1] = HIGH) # (pins[m.in2] = HIGH)

\* the car went from one direction to the opposite one without a stop between
C20_Witness ==
  /\ carPc = "run" /\ handled.c = "R"
  /\ \A m \in Motors : handled.before[m.in1] = HIGH /\ handled.before[m.en] = HIGH
  /\ \A m \in Motors : pins[m.in1] = LOW /\ pins[m.in2] = HIGH /\ pins[m.en] = HIGH

====
